---- MODULE Spec2Model ----
(***************************************************************************)
(* Model of the RNG engine of src/src/hRng.c.                              *)
(*                                                                         *)
(* Spec        one call of maxrng / maxrng_ultra / maxrng_threadsafe /     *)
(*             maxrng_dev followed step by step at byte level, with every  *)
(*             BCrypt / malloc call allowed to fail.                       *)
(* SpecThreads interleavings of maxrng_init, maxrng_threadsafe and         *)
(*             maxrng_dev over the process-wide lock and flag.             *)
(* SpecLen     the 32-bit length arithmetic of maxrng_dev.                 *)
(***************************************************************************)
EXTENDS Integers, Sequences, FiniteSets, TLC

\* ------------------------------------------------------------------------
\* Bounds of the model
\* ------------------------------------------------------------------------
MaxRawLen == 130
MaxComplexityArg == 11
NumThreads == 2
MaxBlocks == 257
MaxInfoLen == 1100
NumCallers == 2
MaxMonitorThreads == 3

\* ------------------------------------------------------------------------
\* Enumerations of hRng.c
\* ------------------------------------------------------------------------
RNG_HASH_SHA256 == 0
RNG_HASH_SHA512 == 1
RNG_HASH_SHA1 == 2

RNG_EXP_COUNTER == 0
RNG_EXP_HKDF == 1
RNG_EXP_HMAC == 2
RNG_EXP_XOF == 3

RNG_THREAD_NONE == 0
RNG_THREAD_CRITSEC == 1
RNG_THREAD_USERLOCK == 2

RNG_MODE_FAST == 0
RNG_MODE_BALANCED == 1
RNG_MODE_SECURE == 2

RNG_OUT_RAW == 0
RNG_OUT_HEX == 1
RNG_OUT_BASE64 == 2

RNG_MIX_ROUND_BASED == 0
RNG_MIX_CONTINUOUS == 1

\* The eight entropy sources, in the order hash_update_entropy_from_sources
\* visits them.
SourceOrder == <<"rdrand", "cpu", "memory", "perf", "disk", "audio", "battery", "network">>

Sources == {SourceOrder[i] : i \in 1..Len(SourceOrder)}

\* Sources whose collector can come back without data (cpu always hashes
\* CPUID/RDTSC and audio falls back to timing samples).
CanBeDown == Sources \ {"cpu", "audio"}

\* ------------------------------------------------------------------------
\* Generic helpers
\* ------------------------------------------------------------------------
Min(a, b) == IF a < b THEN a ELSE b

Max(a, b) == IF a < b THEN b ELSE a

Take(s, n) == SubSeq(s, 1, n)

Zeros(n) == [i \in 1..n |-> 0]

\* A caller buffer nobody wrote to: every cell holds the sentinel.
Sentinel == -1

Fresh(n) == [i \in 1..n |-> Sentinel]

Untouched(buf) == \A i \in 1..Len(buf) : buf[i] = Sentinel

\* Number of cells of a buffer that were stored to.
Written(buf) == Cardinality({i \in 1..Len(buf) : buf[i] # Sentinel})

\* memcpy(buf + off, data, Len(data)); a store past the end of buf shows as
\* a longer sequence.
Overwrite(buf, off, data) ==
  [i \in 1..Max(Len(buf), off + Len(data)) |->
     IF i > off /\ i <= off + Len(data) THEN data[i - off]
     ELSE IF i <= Len(buf) THEN buf[i] ELSE Sentinel]

RECURSIVE Xor(_, _)
Xor(a, b) ==
  IF a = 0 /\ b = 0 THEN 0
  ELSE (((a % 2) + (b % 2)) % 2) + 2 * Xor(a \div 2, b \div 2)

\* ------------------------------------------------------------------------
\* Cryptographic primitives (BCrypt).  The library is external; it is
\* modelled by a concrete keyless/keyed digest over byte strings so that
\* equalities between outputs are computed, not assumed.
\* ------------------------------------------------------------------------
algo_digest_len(a) ==
  CASE a = RNG_HASH_SHA512 -> 64
    [] a = RNG_HASH_SHA1 -> 20
    [] OTHER -> 32

\* Which provider algo_name_from_enum opens (unknown values fall to SHA256).
algo_name_from_enum(a) ==
  CASE a = RNG_HASH_SHA512 -> RNG_HASH_SHA512
    [] a = RNG_HASH_SHA1 -> RNG_HASH_SHA1
    [] OTHER -> RNG_HASH_SHA256

\* A polynomial digest of a byte string modulo a prime, evaluated by halving.
RECURSIVE Pow31(_)
Pow31(n) ==
  IF n = 0 THEN 1
  ELSE LET h == Pow31(n \div 2)
       IN (((h * h) % 32749) * (IF n % 2 = 1 THEN 31 ELSE 1)) % 32749

RECURSIVE Poly(_, _, _)
Poly(msg, lo, hi) ==
  IF lo > hi THEN 0
  ELSE IF lo = hi THEN msg[lo] + 1
  ELSE LET mid == (lo + hi) \div 2
       IN (Poly(msg, lo, mid) * Pow31(hi - mid) + Poly(msg, mid + 1, hi)) % 32749

Fold(msg, start) == ((start % 32749) * Pow31(Len(msg)) + Poly(msg, 1, Len(msg))) % 32749

Squeeze(a, h) ==
  [i \in 1..algo_digest_len(a) |-> ((h + 131 * i) * (2 * i + 1) + h \div 256) % 256]

\* BCryptHashData* ; BCryptFinishHash over the concatenated data.
Hash(a, msg) == Squeeze(a, Fold(msg, 7 + algo_name_from_enum(a)))

\* hmac_once: keyed digest of msg under key (first key_len bytes).
hmac_once(a, key, msg) ==
  Squeeze(a, Fold(msg, Fold(key, 1000 + algo_name_from_enum(a)) + 3))

\* uint32_t counter hashed as 4 little-endian bytes.
CounterBytes(c) == <<c % 256, (c \div 256) % 256, (c \div 65536) % 256, (c \div 16777216) % 256>>

\* hkdf_extract: HMAC(salt, ikm); a NULL salt is replaced by H zero bytes.
hkdf_extract(a, saltPtr, salt, ikmBytes) ==
  IF ~saltPtr THEN hmac_once(a, Zeros(algo_digest_len(a)), ikmBytes)
  ELSE hmac_once(a, salt, ikmBytes)

\* ------------------------------------------------------------------------
\* Output encodings
\* ------------------------------------------------------------------------
\* "0123456789abcdef"
HexDigit(n) == IF n < 10 THEN 48 + n ELSE 87 + n

\* "ABC...Zabc...z0123456789+/"
Base64Char(n) ==
  IF n < 26 THEN 65 + n
  ELSE IF n < 52 THEN 71 + n
  ELSE IF n < 62 THEN n - 4
  ELSE IF n = 62 THEN 43 ELSE 47

Pad == 61

\* hex_encode: out[2i] and out[2i+1] for every input byte.
hex_encode(in) ==
  [k \in 1..(2 * Len(in)) |->
     IF k % 2 = 1 THEN HexDigit((in[(k + 1) \div 2] \div 16) % 16)
     ELSE HexDigit(in[k \div 2] % 16)]

RECURSIVE Base64Body(_, _)
Base64Body(in, i) ==
  IF i + 3 <= Len(in)
  THEN LET v == in[i + 1] * 65536 + in[i + 2] * 256 + in[i + 3]
       IN <<Base64Char((v \div 262144) % 64), Base64Char((v \div 4096) % 64),
            Base64Char((v \div 64) % 64), Base64Char(v % 64)>>
          \o Base64Body(in, i + 3)
  ELSE LET rem == Len(in) - i
       IN IF rem = 1
          THEN LET v == in[i + 1] * 65536
               IN <<Base64Char((v \div 262144) % 64), Base64Char((v \div 4096) % 64), Pad, Pad>>
          ELSE IF rem = 2
          THEN LET v == in[i + 1] * 65536 + in[i + 2] * 256
               IN <<Base64Char((v \div 262144) % 64), Base64Char((v \div 4096) % 64),
                    Base64Char((v \div 64) % 64), Pad>>
          ELSE <<>>

\* ------------------------------------------------------------------------
\* 32-bit signed arithmetic
\* ------------------------------------------------------------------------
IntMax == 2147483647

Two30 == 1073741824

\* Two's-complement wrap of a + b for int32 a, b.
AddWrap(a, b) ==
  IF a >= 0 /\ b >= 0 /\ a > IntMax - b
  THEN ((a - Two30) - Two30) + ((b - Two30) - Two30)
  ELSE IF a < 0 /\ b < 0 /\ ((a + Two30) + Two30) + b < 0
  THEN ((a + Two30) + Two30) + ((b + Two30) + Two30)
  ELSE a + b

\* 2 * n and 4 * n wrapped to int32.
Mul2Wrap(n) == AddWrap(n, n)

Mul4Wrap(n) == Mul2Wrap(Mul2Wrap(n))

\* C division truncates toward zero.
DivTrunc(a, b) == IF a >= 0 THEN a \div b ELSE (a + (b - 1)) \div b

\* base64_len: 4 * ((n + 2) / 3) in int arithmetic.
base64_len(n) == Mul4Wrap(DivTrunc(AddWrap(n, 2), 3))

\* ------------------------------------------------------------------------
\* State of one call (Spec)
\* ------------------------------------------------------------------------
VARIABLES
  pc,            \* position of the call in the code
  op,            \* exported function being called
  args,          \* its scalar arguments and pointer validity
  cfg_in,        \* the caller's RNG_CONFIG (maxrng_dev)
  env,           \* behaviour of the entropy sources during the call
  cfg,           \* the local RNG_CONFIG the call works on
  out_buf,       \* the caller's buffer
  raw,           \* malloc'ed raw workspace of maxrng_dev
  ikm,           \* malloc'ed keying material of maxrng_dev
  col,           \* locals of collect_entropy_configurable
  exp,           \* locals of expand_output / hkdf_expand / hmac_stream_expand
  dev,           \* locals of maxrng_dev
  result,        \* value returned to the caller
  dirty,         \* buffers currently holding secret bytes
  leaked,        \* buffers released while still holding secret bytes
  failed,        \* the checked primitive / allocation call that failed
  ignoredFail,   \* some BCryptHashData whose status is not inspected failed
  events,        \* lock / unlock / entropy-read events in program order
  \* ---- process-wide state and threads (SpecThreads)
  g_threadingInitialized,
  g_rngLock,
  tpc,
  tcall,
  userMutex,
  initRuns,
  enteredUninit,
  \* ---- length arithmetic (SpecLen)
  lpc,
  larg,
  lres,
  \* ---- block counters and message lengths of the HMAC expanders (SpecExpand)
  epc,
  earg,
  eres,
  \* ---- metrics monitoring of processInspect.c (SpecMon)
  g_monitorContext,
  mthread,
  mpc,
  mret

genVars == <<pc, op, args, cfg_in, env, cfg, out_buf, raw, ikm, col, exp, dev,
             result, dirty, leaked, failed, ignoredFail, events>>

thrVars == <<g_threadingInitialized, g_rngLock, tpc, tcall, userMutex, initRuns, enteredUninit>>

lenVars == <<lpc, larg, lres>>

expVars == <<epc, earg, eres>>

monVars == <<g_monitorContext, mthread, mpc, mret>>

vars == <<genVars, thrVars, lenVars, expVars, monVars>>

\* What no step of a call changes: its inputs and the other specifications' state.
callVars == <<op, args, cfg_in, env, thrVars, lenVars, expVars, monVars>>

\* ------------------------------------------------------------------------
\* Configurations
\* ------------------------------------------------------------------------
NoSeed == [ptr |-> FALSE, bytes |-> <<>>, len |-> 0]

\* maxrng_dev_default_config before the preset is applied.
BaseCfg ==
  [use |-> Sources,
   hash_algo |-> RNG_HASH_SHA256, expansion |-> RNG_EXP_COUNTER,
   mixing |-> RNG_MIX_CONTINUOUS,
   threading |-> RNG_THREAD_NONE, user_lock |-> FALSE, user_unlock |-> FALSE,
   seed |-> NoSeed,
   sec_mode |-> RNG_MODE_BALANCED, complexity |-> 2,
   output_mode |-> RNG_OUT_RAW,
   info |-> NoSeed]

\* What each source hands to BCryptHashData when it is up (mocked bytes).
SourceBytes(s) == <<16 + CHOOSE i \in 1..Len(SourceOrder) : SourceOrder[i] = s>>

NoEnv == [down |-> {}, updFail |-> {}]

\* A preset switch in which every sec_mode takes the default arm.
apply_security_preset_DefaultArm(c) ==
  [c EXCEPT !.use = @ \cup {"audio", "network", "disk"},
            !.hash_algo = IF @ = RNG_HASH_SHA256 \/ @ = RNG_HASH_SHA1
                          THEN @ ELSE RNG_HASH_SHA256,
            !.complexity = IF @ < 2 THEN 2 ELSE @,
            !.mixing = RNG_MIX_CONTINUOUS]

\* apply_security_preset
apply_security_preset(c) ==
  CASE c.sec_mode = RNG_MODE_FAST ->
         [c EXCEPT !.use = @ \ {"audio", "network", "disk"},
                   !.hash_algo = RNG_HASH_SHA256,
                   !.complexity = IF @ < 1 THEN 1 ELSE @,
                   !.mixing = RNG_MIX_CONTINUOUS]
    [] c.sec_mode = RNG_MODE_SECURE ->
         [c EXCEPT !.use = @ \cup {"audio", "network", "disk"},
                   !.hash_algo = RNG_HASH_SHA512,
                   !.complexity = IF @ < 3 THEN 3 ELSE @,
                   !.mixing = RNG_MIX_ROUND_BASED]
    [] OTHER ->
         [c EXCEPT !.use = @ \cup {"audio", "network", "disk"},
                   !.hash_algo = IF @ = RNG_HASH_SHA256 \/ @ = RNG_HASH_SHA1
                                 THEN @ ELSE RNG_HASH_SHA256,
                   !.complexity = IF @ < 2 THEN 2 ELSE @,
                   !.mixing = RNG_MIX_CONTINUOUS]

\* A resolution that stops after the preset.
ResolveConfig_NoClamp(c) ==
  apply_security_preset(IF c.use = {} THEN [c EXCEPT !.use = Sources] ELSE c)

\* maxrng_dev lines 784-800: copy, default toggles, preset, clamp.
ResolveConfig(c) ==
  LET d == IF c.use = {} THEN [c EXCEPT !.use = Sources] ELSE c
      p == apply_security_preset(d)
  IN [p EXCEPT !.complexity = IF @ < 1 THEN 1 ELSE IF @ > 10 THEN 10 ELSE @]

\* maxrng_dev lines 803-809; -1 stands for the "default: return 0" arm.
Needed(mode, raw_len) ==
  CASE mode = RNG_OUT_RAW -> raw_len
    [] mode = RNG_OUT_HEX -> Mul2Wrap(raw_len)
    [] mode = RNG_OUT_BASE64 -> base64_len(raw_len)
    [] OTHER -> -1

ValidOutputMode(mode) == mode \in {RNG_OUT_RAW, RNG_OUT_HEX, RNG_OUT_BASE64}

\* Keying material that is always one digest wide.
IkmLen_DigestWidth(raw_len, H) == H

\* maxrng_dev line 823
IkmLen(raw_len, H) == IF raw_len < H THEN H ELSE IF raw_len > 2 * H THEN 2 * H ELSE raw_len

\* The fixed configurations of maxrng, maxrng_ultra and maxrng_threadsafe.
FixedCfg(o, complexity) ==
  CASE o = "maxrng" ->
         [BaseCfg EXCEPT !.mixing = RNG_MIX_ROUND_BASED, !.complexity = 1]
    [] o = "maxrng_ultra" ->
         [BaseCfg EXCEPT !.hash_algo = RNG_HASH_SHA512, !.mixing = RNG_MIX_ROUND_BASED,
                         !.sec_mode = RNG_MODE_SECURE, !.complexity = complexity]
    [] OTHER ->
         [BaseCfg EXCEPT !.threading = RNG_THREAD_CRITSEC, !.complexity = complexity]

\* A clamp with the lower limit only.
ClampArg_NoUpperLimit(o, c) == IF o = "maxrng" \/ c < 1 THEN 1 ELSE c

\* Clamp of the complexity argument (maxrng_ultra 729-730, maxrng_threadsafe 757-758).
ClampArg(o, c) ==
  LET hi == IF o = "maxrng_ultra" THEN 10 ELSE 5
  IN IF o = "maxrng" THEN 1 ELSE IF c < 1 THEN 1 ELSE IF c > hi THEN hi ELSE c

\* ------------------------------------------------------------------------
\* hash_update_entropy_from_sources
\* ------------------------------------------------------------------------
\* Sources that are enabled and come back with data.
Delivering(c, e) == {s \in c.use : s \notin e.down}

RECURSIVE FeedSources(_, _, _, _)
FeedSources(ctx, c, e, i) ==
  IF i > Len(SourceOrder) THEN ctx
  ELSE LET s == SourceOrder[i]
       IN FeedSources(IF s \in Delivering(c, e) /\ s \notin e.updFail
                      THEN ctx \o SourceBytes(s) ELSE ctx,
                      c, e, i + 1)

\* The hash context after one pass over the sources (return value is always 1).
hash_update_entropy_from_sources(ctx, c, e) == FeedSources(ctx, c, e, 1)

\* A BCryptHashData inside a collector failed and nobody looked at its status.
UpdateFailureIgnored(c, e) == Delivering(c, e) \cap e.updFail # {}

\* ------------------------------------------------------------------------
\* collect_entropy_configurable (lines 454-546)
\* ------------------------------------------------------------------------
InDev == op = "maxrng_dev"

\* memcpy into the function's `buffer` argument: the caller's buffer for the
\* maxrng family, the ikm allocation for maxrng_dev.
CollectStore(off, data) ==
  IF InDev
  THEN /\ ikm' = Overwrite(ikm, off, data)
       /\ dirty' = dirty \cup {"ikm", "digest"}
       /\ UNCHANGED out_buf
  ELSE /\ out_buf' = Overwrite(out_buf, off, data)
       /\ dirty' = dirty \cup {"digest"}
       /\ UNCHANGED ikm

\* Every `return 0` of the function: digest leaves scope as it is.
CollectFail(name) ==
  /\ failed' = name
  /\ col' = [col EXCEPT !.cres = 0]
  /\ leaked' = leaked \cup ({"digest"} \cap dirty)
  /\ dirty' = dirty \ {"digest"}
  /\ pc' = "collect_ret"
  /\ UNCHANGED <<callVars, cfg, out_buf, raw, ikm, exp, dev, result, ignoredFail, events>>

\* lines 464-473 / 483-484: provider, hash length, first hash object.
collect_open ==
  /\ pc = "collect_open"
  /\ \E f \in {"ok", "BCryptOpenAlgorithmProvider", "BCryptGetProperty", "BCryptCreateHash"} :
       IF f = "ok"
       THEN /\ col' = [col EXCEPT !.ctx = <<>>, !.round = 0]
            /\ pc' = "collect_round"
            /\ UNCHANGED <<callVars, cfg, out_buf, raw, ikm, exp, dev, result, dirty,
                           leaked, failed, ignoredFail, events>>
       ELSE CollectFail(f)

\* One iteration of the loop of the continuous branch (lines 475-477).
collect_round_continuous ==
  /\ pc = "collect_round"
  /\ col.mixing = RNG_MIX_CONTINUOUS
  /\ col' = [col EXCEPT !.ctx = hash_update_entropy_from_sources(@, cfg, env),
                        !.round = @ + 1]
  /\ ignoredFail' = (ignoredFail \/ UpdateFailureIgnored(cfg, env))
  /\ events' = Append(events, "entropy")
  /\ pc' = IF col.round + 1 < col.rounds THEN "collect_round" ELSE "collect_finish"
  /\ UNCHANGED <<callVars, cfg, out_buf, raw, ikm, exp, dev, result, dirty, leaked, failed>>

\* lines 478-480: the single finalization of the continuous branch.
collect_finish ==
  /\ pc = "collect_finish"
  /\ \E f \in {"ok", "BCryptFinishHash"} :
       IF f = "ok"
       THEN /\ col' = [col EXCEPT !.digest = Hash(col.algo, col.ctx)]
            /\ dirty' = dirty \cup {"digest"}
            /\ pc' = "collect_first"
            /\ UNCHANGED <<callVars, cfg, out_buf, raw, ikm, exp, dev, result,
                           leaked, failed, ignoredFail, events>>
       ELSE CollectFail(f)

\* A next round that starts from an empty context.
FeedPriorDigest_Dropped(digest) == <<>>

\* lines 495-499: a fresh hash object, fed the digest of the round before.
FeedPriorDigest(digest) == <<>> \o digest

\* One iteration of the loop of the round-based branch (lines 486-506).
collect_round_chained ==
  /\ pc = "collect_round"
  /\ col.mixing # RNG_MIX_CONTINUOUS
  /\ LET fed == hash_update_entropy_from_sources(col.ctx, cfg, env)
         more == col.round + 1 < col.rounds
     IN \E f \in {"ok", "BCryptFinishHash"} \cup
                 (IF more THEN {"BCryptCreateHash", "BCryptHashData"} ELSE {}) :
          /\ ignoredFail' = (ignoredFail \/ UpdateFailureIgnored(cfg, env))
          /\ events' = Append(events, "entropy")
          /\ IF f = "BCryptFinishHash"
             THEN \* digest keeps the previous round's value
                  /\ failed' = f
                  /\ col' = [col EXCEPT !.cres = 0, !.ctx = fed]
                  /\ leaked' = leaked \cup ({"digest"} \cap dirty)
                  /\ dirty' = dirty \ {"digest"}
                  /\ pc' = "collect_ret"
             ELSE IF f # "ok"
             THEN \* this round's digest was produced, then the re-open failed
                  /\ failed' = f
                  /\ col' = [col EXCEPT !.cres = 0, !.ctx = fed,
                                        !.digest = Hash(col.algo, fed)]
                  /\ leaked' = leaked \cup {"digest"}
                  /\ dirty' = dirty \ {"digest"}
                  /\ pc' = "collect_ret"
             ELSE /\ col' = [col EXCEPT !.digest = Hash(col.algo, fed),
                                        !.ctx = IF more THEN FeedPriorDigest(Hash(col.algo, fed))
                                                ELSE fed,
                                        !.round = @ + 1]
                  /\ dirty' = dirty \cup {"digest"}
                  /\ pc' = IF more THEN "collect_round" ELSE "collect_first"
                  /\ UNCHANGED <<leaked, failed>>
          /\ UNCHANGED <<callVars, cfg, out_buf, raw, ikm, exp, dev, result>>

\* lines 510-516: the first digest block goes to the buffer.
collect_first ==
  /\ pc = "collect_first"
  /\ LET cbHash == algo_digest_len(col.algo)
         bytesToCopy == Min(col.size, cbHash)
     IN /\ CollectStore(0, Take(col.digest, bytesToCopy))
        /\ col' = [col EXCEPT !.remaining = col.size - bytesToCopy,
                              !.offset = bytesToCopy, !.counter = 1]
        /\ pc' = IF col.size - bytesToCopy > 0 THEN "collect_block" ELSE "collect_done"
  /\ UNCHANGED <<callVars, cfg, raw, exp, dev, result, leaked, failed, ignoredFail, events>>

\* One iteration of the counter loop (lines 520-540).
collect_block ==
  /\ pc = "collect_block"
  /\ \E f \in {"ok", "BCryptCreateHash", "BCryptHashData", "BCryptFinishHash"} :
       IF f = "ok"
       THEN LET cbHash == algo_digest_len(col.algo)
                next == Hash(col.algo, col.digest \o CounterBytes(col.counter))
                bytesToCopy == Min(col.remaining, cbHash)
            IN /\ CollectStore(col.offset, Take(next, bytesToCopy))
               /\ col' = [col EXCEPT !.digest = next,
                                     !.remaining = @ - bytesToCopy,
                                     !.offset = @ + bytesToCopy,
                                     !.counter = @ + 1]
               /\ pc' = IF col.remaining - bytesToCopy > 0 THEN "collect_block"
                        ELSE "collect_done"
               /\ UNCHANGED <<callVars, cfg, raw, exp, dev, result, leaked, failed,
                              ignoredFail, events>>
       ELSE CollectFail(f)

\* lines 543-545: close, wipe digest, return 1.
collect_done ==
  /\ pc = "collect_done"
  /\ col' = [col EXCEPT !.digest = Zeros(64), !.cres = 1]
  /\ dirty' = dirty \ {"digest"}
  /\ pc' = "collect_ret"
  /\ UNCHANGED <<callVars, cfg, out_buf, raw, ikm, exp, dev, result, leaked, failed,
                 ignoredFail, events>>

\* ------------------------------------------------------------------------
\* maxrng, maxrng_ultra, maxrng_threadsafe (lines 708-776)
\* ------------------------------------------------------------------------
SimpleOps == {"maxrng", "maxrng_ultra", "maxrng_threadsafe"}

InitCol == [size |-> 0, rounds |-> 0, algo |-> 0, mixing |-> 0, digest |-> <<>>,
            ctx |-> <<>>, round |-> 0, offset |-> 0, remaining |-> 0, counter |-> 0,
            cres |-> 0]

\* Argument check, clamp, lock, fixed config, call of the collector.
maxrng_call ==
  /\ pc = "start"
  /\ op \in SimpleOps
  /\ IF ~args.buf \/ args.len <= 0
     THEN /\ pc' = "done"
          /\ result' = 0
          /\ UNCHANGED <<cfg, col, events>>
     ELSE LET c == FixedCfg(op, ClampArg(op, args.complexity))
          IN /\ cfg' = c
             /\ col' = [InitCol EXCEPT !.size = args.len, !.rounds = c.complexity,
                                       !.algo = c.hash_algo, !.mixing = c.mixing]
             /\ events' = IF op = "maxrng_threadsafe" THEN Append(events, "enter") ELSE events
             /\ pc' = "collect_open"
             /\ UNCHANGED result
  /\ UNCHANGED <<callVars, out_buf, raw, ikm, exp, dev, dirty, leaked, failed, ignoredFail>>

\* Return of the collector's result (after LeaveCriticalSection where taken).
maxrng_return ==
  /\ pc = "collect_ret"
  /\ op \in SimpleOps
  /\ events' = IF op = "maxrng_threadsafe" THEN Append(events, "leave") ELSE events
  /\ result' = col.cres
  /\ pc' = "done"
  /\ UNCHANGED <<callVars, cfg, out_buf, raw, ikm, col, exp, dev, dirty, leaked, failed,
                 ignoredFail>>

\* ------------------------------------------------------------------------
\* ensure_threading_enter / ensure_threading_leave (lines 583-598)
\* ------------------------------------------------------------------------
ensure_threading_enter(c) ==
  IF c.threading = RNG_THREAD_CRITSEC THEN <<"enter">>
  ELSE IF c.threading = RNG_THREAD_USERLOCK /\ c.user_lock THEN <<"user_lock">>
  ELSE <<>>

ensure_threading_leave(c) ==
  IF c.threading = RNG_THREAD_CRITSEC THEN <<"leave">>
  ELSE IF c.threading = RNG_THREAD_USERLOCK /\ c.user_unlock THEN <<"user_unlock">>
  ELSE <<>>

\* ------------------------------------------------------------------------
\* maxrng_dev (lines 780-870)
\* ------------------------------------------------------------------------
InitExp == [block |-> <<>>, prk |-> <<>>, T |-> <<>>, t_len |-> 0, prev |-> <<>>,
            prev_len |-> 0, pos |-> 0, ctr |-> 1, key |-> <<>>]

InitDev == [needed |-> 0, ikm_len |-> 0, ok |-> 0]

\* The first seed_len bytes behind cfg.seed / info_len bytes behind cfg.info.
SeedBytes(c) == Take(c.seed.bytes, c.seed.len)

InfoBytes(c) == Take(c.info.bytes, c.info.len)

\* lines 782-814: argument check, config resolution, length check, malloc(raw).
maxrng_dev_entry ==
  /\ pc = "start"
  /\ InDev
  /\ IF ~args.buf \/ args.len <= 0 \/ args.raw_len <= 0 \/ ~args.cfgptr
     THEN /\ pc' = "done"
          /\ result' = 0
          /\ UNCHANGED <<cfg, dev, raw, failed>>
     ELSE LET c == ResolveConfig(cfg_in)
              needed == Needed(c.output_mode, args.raw_len)
          IN /\ cfg' = c
             /\ dev' = [dev EXCEPT !.needed = needed]
             /\ IF ~ValidOutputMode(c.output_mode) \/ args.len < needed
                THEN /\ pc' = "done"
                     /\ result' = 0
                     /\ UNCHANGED <<raw, failed>>
                ELSE \E f \in {"ok", "malloc"} :
                       IF f = "ok"
                       THEN /\ raw' = Fresh(args.raw_len)
                            /\ pc' = "dev_enter"
                            /\ UNCHANGED <<result, failed>>
                       ELSE /\ failed' = f
                            /\ pc' = "done"
                            /\ result' = 0
                            /\ UNCHANGED raw
  /\ UNCHANGED <<callVars, out_buf, ikm, col, exp, dirty, leaked, ignoredFail, events>>

\* lines 817-830: take the lock, size and allocate ikm, call the collector.
dev_enter ==
  /\ pc = "dev_enter"
  /\ LET H == algo_digest_len(cfg.hash_algo)
         ikm_len == IkmLen(args.raw_len, H)
     IN \E f \in {"ok", "malloc"} :
          IF f = "ok"
          THEN /\ events' = events \o ensure_threading_enter(cfg)
               /\ dev' = [dev EXCEPT !.ikm_len = ikm_len]
               /\ ikm' = Fresh(ikm_len)
               /\ col' = [InitCol EXCEPT !.size = ikm_len, !.rounds = cfg.complexity,
                                         !.algo = cfg.hash_algo, !.mixing = cfg.mixing]
               /\ pc' = "collect_open"
               /\ UNCHANGED <<result, failed>>
          ELSE /\ events' = events \o ensure_threading_enter(cfg) \o ensure_threading_leave(cfg)
               /\ failed' = f
               /\ result' = 0
               /\ pc' = "done"
               /\ UNCHANGED <<dev, ikm, col>>
  /\ UNCHANGED <<callVars, cfg, out_buf, raw, exp, dirty, leaked, ignoredFail>>

\* The fold condition without its test of the seed pointer.
FoldsSeed_NoPointerTest(c) ==
  /\ c.expansion = RNG_EXP_COUNTER \/ c.expansion = RNG_EXP_XOF
  /\ c.seed.len > 0

\* lines 839-842: the seed is XORed into the head of ikm.
FoldsSeed(c) ==
  /\ c.expansion = RNG_EXP_COUNTER \/ c.expansion = RNG_EXP_XOF
  /\ c.seed.ptr
  /\ c.seed.len > 0

\* A fold that leaves ikm as the collector wrote it.
XorFold_Skipped(buf, c, ikm_len) == buf

XorFold(buf, c, ikm_len) ==
  LET m == Min(c.seed.len, ikm_len)
  IN [i \in 1..Len(buf) |-> IF i <= m THEN Xor(buf[i], c.seed.bytes[i]) ELSE buf[i]]

\* lines 831-842: the collector returned.
dev_collect_ret ==
  /\ pc = "collect_ret"
  /\ InDev
  /\ IF col.cres = 0
     THEN /\ events' = events \o ensure_threading_leave(cfg)
          /\ leaked' = leaked \cup ({"ikm", "raw"} \cap dirty)
          /\ dirty' = dirty \ {"ikm", "raw"}
          /\ result' = 0
          /\ pc' = "done"
          /\ UNCHANGED ikm
     ELSE /\ ikm' = IF FoldsSeed(cfg) THEN XorFold(ikm, cfg, dev.ikm_len) ELSE ikm
          /\ pc' = "expand_output"
          /\ UNCHANGED <<events, leaked, dirty, result>>
  /\ UNCHANGED <<callVars, cfg, out_buf, raw, col, exp, dev, failed, ignoredFail>>

\* ------------------------------------------------------------------------
\* expand_output, hkdf_expand, hmac_stream_expand (lines 364-432, 601-690)
\* ------------------------------------------------------------------------
\* A `return 0` inside the expander: the buffers in scope leave it as they
\* are, the ones in wiped were zeroed on the way out.
ExpandFail(name, scope, wiped) ==
  /\ failed' = name
  /\ leaked' = leaked \cup (scope \cap dirty)
  /\ dirty' = dirty \ (scope \cup wiped)
  /\ dev' = [dev EXCEPT !.ok = 0]
  /\ pc' = "dev_format"
  /\ UNCHANGED <<callVars, cfg, out_buf, raw, ikm, col, exp, result, ignoredFail, events>>

IsHkdf(c) == c.expansion = RNG_EXP_HKDF \/ c.expansion = RNG_EXP_XOF

\* lines 605-626, 659-662, 670-671: dispatch on cfg->expansion.
expand_output ==
  /\ pc = "expand_output"
  /\ LET H == algo_digest_len(cfg.hash_algo)
         key == Take(ikm, dev.ikm_len)
     IN CASE dev.ikm_len <= 0 -> ExpandFail("ikm_len", {}, {})
          [] cfg.expansion = RNG_EXP_COUNTER ->
               \E f \in {"ok", "BCryptOpenAlgorithmProvider", "BCryptGetProperty"} :
                 IF f = "ok"
                 THEN /\ exp' = [InitExp EXCEPT !.key = key]
                      /\ pc' = "counter_block"
                      /\ UNCHANGED <<callVars, cfg, out_buf, raw, ikm, col, dev, result,
                                     dirty, leaked, failed, ignoredFail, events>>
                 ELSE ExpandFail(f, {}, {})
          [] IsHkdf(cfg) ->
               \E f \in {"ok", "hmac_once"} :
                 IF f = "ok"
                 THEN /\ exp' = [InitExp EXCEPT
                                   !.prk = hkdf_extract(cfg.hash_algo, cfg.seed.ptr,
                                                        SeedBytes(cfg), key)]
                      /\ dirty' = dirty \cup {"prk"}
                      /\ pc' = "hkdf_block"
                      /\ UNCHANGED <<callVars, cfg, out_buf, raw, ikm, col, dev, result,
                                     leaked, failed, ignoredFail, events>>
                 ELSE ExpandFail(f, {}, {})
          [] cfg.expansion = RNG_EXP_HMAC ->
               /\ exp' = [InitExp EXCEPT !.key = IF cfg.seed.ptr THEN SeedBytes(cfg) ELSE key]
               /\ pc' = "hmac_block"
               /\ UNCHANGED <<callVars, cfg, out_buf, raw, ikm, col, dev, result,
                              dirty, leaked, failed, ignoredFail, events>>
          [] OTHER -> ExpandFail("expansion", {}, {})

\* A loop that copies whole digest blocks without looking at what is left.
ToCopy_WholeBlock(out_len, pos, H) == H

\* The part of a digest block that still fits (to_copy of the three loops).
ToCopy(out_len, pos, H) == IF out_len - pos < H THEN out_len - pos ELSE H

\* One iteration of the RNG_EXP_COUNTER loop (lines 628-652).
counter_block ==
  /\ pc = "counter_block"
  /\ \E f \in {"ok", "BCryptCreateHash", "BCryptHashData", "BCryptFinishHash"} :
       IF f = "ok"
       THEN LET H == algo_digest_len(cfg.hash_algo)
                seed == IF cfg.seed.ptr /\ cfg.seed.len > 0 THEN SeedBytes(cfg) ELSE <<>>
                block == Hash(cfg.hash_algo, exp.key \o seed \o CounterBytes(exp.ctr))
                to_copy == ToCopy(args.raw_len, exp.pos, H)
            IN /\ raw' = Overwrite(raw, exp.pos, Take(block, to_copy))
               /\ exp' = [exp EXCEPT !.block = block, !.pos = @ + to_copy, !.ctr = @ + 1]
               /\ dirty' = dirty \cup {"block", "raw"}
               /\ pc' = IF exp.pos + to_copy < args.raw_len THEN "counter_block"
                        ELSE "counter_done"
               /\ UNCHANGED <<callVars, cfg, out_buf, ikm, col, dev, result, leaked,
                              failed, ignoredFail, events>>
       ELSE ExpandFail(f, {"block"}, {})

\* lines 653-655: close, wipe block, return 1.
counter_done ==
  /\ pc = "counter_done"
  /\ exp' = [exp EXCEPT !.block = Zeros(64)]
  /\ dirty' = dirty \ {"block"}
  /\ dev' = [dev EXCEPT !.ok = 1]
  /\ pc' = "dev_format"
  /\ UNCHANGED <<callVars, cfg, out_buf, raw, ikm, col, result, leaked, failed,
                 ignoredFail, events>>

\* The HMAC message of hkdf_expand: T(i-1) | info | counter (lines 379-388).
HkdfMsg(T, t_len, c, ctr) ==
  Take(T, t_len) \o (IF c.info.ptr /\ c.info.len > 0 THEN InfoBytes(c) ELSE <<>>) \o <<ctr>>

\* One iteration of the loop of hkdf_expand (lines 375-397); on failure the
\* function returns 0 and expand_output wipes prk (lines 664-666).
hkdf_block ==
  /\ pc = "hkdf_block"
  /\ \E f \in {"ok", "hmac_once"} :
       LET H == algo_digest_len(cfg.hash_algo)
           msg == HkdfMsg(exp.T, exp.t_len, cfg, exp.ctr)
           held == IF exp.t_len > 0 THEN {"msg"} ELSE {}
       IN IF f = "ok"
          THEN LET T == hmac_once(cfg.hash_algo, exp.prk, msg)
                   to_copy == ToCopy(args.raw_len, exp.pos, H)
               IN /\ raw' = Overwrite(raw, exp.pos, Take(T, to_copy))
                  /\ exp' = [exp EXCEPT !.T = T, !.pos = @ + to_copy, !.t_len = H,
                                        !.ctr = (@ + 1) % 256]
                  /\ dirty' = dirty \cup {"T", "raw"} \cup held
                  /\ pc' = IF exp.pos + to_copy < args.raw_len THEN "hkdf_block"
                           ELSE "hkdf_return"
                  /\ UNCHANGED <<callVars, cfg, out_buf, ikm, col, dev, result, leaked,
                                 failed, ignoredFail, events>>
          ELSE /\ failed' = f
               /\ leaked' = leaked \cup ({"T"} \cap dirty) \cup held
               /\ dirty' = dirty \ {"T", "msg", "prk"}
               /\ exp' = [exp EXCEPT !.prk = Zeros(64)]
               /\ dev' = [dev EXCEPT !.ok = 0]
               /\ pc' = "dev_format"
               /\ UNCHANGED <<callVars, cfg, out_buf, raw, ikm, col, result,
                              ignoredFail, events>>

\* hkdf_expand returns 1 (line 398); expand_output wipes prk (lines 664-666).
hkdf_return ==
  /\ pc = "hkdf_return"
  /\ leaked' = leaked \cup ({"T", "msg"} \cap dirty)
  /\ dirty' = dirty \ {"T", "msg", "prk"}
  /\ exp' = [exp EXCEPT !.prk = Zeros(64)]
  /\ dev' = [dev EXCEPT !.ok = 1]
  /\ pc' = "dev_format"
  /\ UNCHANGED <<callVars, cfg, out_buf, raw, ikm, col, result, failed, ignoredFail, events>>

\* One iteration of the loop of hmac_stream_expand (lines 412-428).
hmac_block ==
  /\ pc = "hmac_block"
  /\ \E f \in {"ok", "hmac_once"} :
       LET H == algo_digest_len(cfg.hash_algo)
           msg == Take(exp.prev, exp.prev_len) \o <<exp.ctr>>
           held == IF exp.prev_len > 0 THEN {"msg"} ELSE {}
       IN IF f = "ok"
          THEN LET prev == hmac_once(cfg.hash_algo, exp.key, msg)
                   to_copy == ToCopy(args.raw_len, exp.pos, H)
               IN /\ raw' = Overwrite(raw, exp.pos, Take(prev, to_copy))
                  /\ exp' = [exp EXCEPT !.prev = prev, !.pos = @ + to_copy, !.prev_len = H,
                                        !.ctr = (@ + 1) % 256]
                  /\ dirty' = dirty \cup {"prev", "raw"} \cup held
                  /\ pc' = IF exp.pos + to_copy < args.raw_len THEN "hmac_block"
                           ELSE "hmac_done"
                  /\ UNCHANGED <<callVars, cfg, out_buf, ikm, col, dev, result, leaked,
                                 failed, ignoredFail, events>>
          ELSE /\ failed' = f
               /\ leaked' = leaked \cup ({"prev"} \cap dirty) \cup held
               /\ dirty' = dirty \ {"prev", "msg"}
               /\ dev' = [dev EXCEPT !.ok = 0]
               /\ pc' = "dev_format"
               /\ UNCHANGED <<callVars, cfg, out_buf, raw, ikm, col, exp, result,
                              ignoredFail, events>>

\* lines 429-431: wipe prev, return 1.
hmac_done ==
  /\ pc = "hmac_done"
  /\ exp' = [exp EXCEPT !.prev = Zeros(64)]
  /\ leaked' = leaked \cup ({"msg"} \cap dirty)
  /\ dirty' = dirty \ {"prev", "msg"}
  /\ dev' = [dev EXCEPT !.ok = 1]
  /\ pc' = "dev_format"
  /\ UNCHANGED <<callVars, cfg, out_buf, raw, ikm, col, result, failed, ignoredFail, events>>

\* base64_encode: 0 when the output is too short, else the encoded text.
base64_encode(in, out_len) ==
  IF out_len < base64_len(Len(in)) THEN [ok |-> 0, text |-> <<>>]
  ELSE [ok |-> 1, text |-> Base64Body(in, 0)]

\* What lines 852-862 store to out_buf and the resulting ok.
FormatOutput(c, rawBytes, out_buf_len) ==
  CASE c.output_mode = RNG_OUT_RAW -> [ok |-> 1, text |-> rawBytes]
    [] c.output_mode = RNG_OUT_HEX -> [ok |-> 1, text |-> hex_encode(rawBytes)]
    [] c.output_mode = RNG_OUT_BASE64 -> base64_encode(rawBytes, out_buf_len)
    [] OTHER -> [ok |-> 0, text |-> <<>>]

\* lines 847-869: wipe and free ikm, format, wipe and free raw, unlock, return.
dev_format ==
  /\ pc = "dev_format"
  /\ LET fmt == IF dev.ok # 0 THEN FormatOutput(cfg, Take(raw, args.raw_len), args.len)
                ELSE [ok |-> 0, text |-> <<>>]
     IN /\ out_buf' = Overwrite(out_buf, 0, fmt.text)
        /\ dev' = [dev EXCEPT !.ok = fmt.ok]
        /\ result' = IF fmt.ok # 0 THEN dev.needed ELSE 0
  /\ ikm' = Zeros(dev.ikm_len)
  /\ raw' = Zeros(args.raw_len)
  /\ dirty' = dirty \ {"ikm", "raw"}
  /\ events' = events \o ensure_threading_leave(cfg)
  /\ pc' = "done"
  /\ UNCHANGED <<callVars, cfg, col, exp, leaked, failed, ignoredFail>>

\* ------------------------------------------------------------------------
\* Inputs of Spec
\* ------------------------------------------------------------------------
RawLens == {1, 16, 33, 70, MaxRawLen}

ComplexityArgs == {-1, 0, 1, 2, MaxComplexityArg}

ShortSeed == [ptr |-> TRUE, bytes |-> <<165, 60>>, len |-> 2]

EmptySeed == [ptr |-> TRUE, bytes |-> <<165, 60>>, len |-> 0]

LongSeed == [ptr |-> TRUE, bytes |-> [i \in 1..24 |-> 3 * i], len |-> 24]

\* A length left in the config next to a null seed pointer.
NullSeed == [ptr |-> FALSE, bytes |-> <<90, 15>>, len |-> 2]

Seeds == {NoSeed, ShortSeed, EmptySeed, LongSeed, NullSeed}

SomeInfo == [ptr |-> TRUE, bytes |-> <<73, 78>>, len |-> 2]

Envs ==
  { NoEnv,
    [down |-> {"rdrand"}, updFail |-> {}],
    [down |-> CanBeDown, updFail |-> {}],
    [down |-> {}, updFail |-> {"cpu"}],
    [down |-> {}, updFail |-> Sources] }

\* (sec_mode, hash_algo) pairs; 7 is a sec_mode outside the enum.
PresetChoices ==
  { <<RNG_MODE_FAST, RNG_HASH_SHA256>>, <<RNG_MODE_SECURE, RNG_HASH_SHA256>>,
    <<RNG_MODE_BALANCED, RNG_HASH_SHA256>>, <<RNG_MODE_BALANCED, RNG_HASH_SHA1>>,
    <<RNG_MODE_BALANCED, RNG_HASH_SHA512>> }

\* Configurations that vary the expansion side: every strategy with every
\* preset and seed, raw output, info where the strategy reads it.
ExpandCfgs ==
  { c \in
      { [BaseCfg EXCEPT !.expansion = e, !.sec_mode = p[1], !.hash_algo = p[2],
                        !.seed = sd, !.info = inf, !.complexity = 1] :
          e \in 0..4, p \in PresetChoices, sd \in Seeds, inf \in {NoSeed, SomeInfo} } :
      c.info = NoSeed \/ c.expansion \in {RNG_EXP_HKDF, RNG_EXP_XOF} }

\* Configurations that vary the formatting side: every strategy with every
\* output mode (3 is outside the enum).
FormatCfgs ==
  { [BaseCfg EXCEPT !.expansion = e, !.sec_mode = p[1], !.hash_algo = p[2],
                    !.seed = sd, !.output_mode = om, !.complexity = 1] :
      e \in 0..3, p \in {<<RNG_MODE_FAST, RNG_HASH_SHA256>>, <<RNG_MODE_BALANCED, RNG_HASH_SHA1>>},
      sd \in {NoSeed, ShortSeed}, om \in 1..3 }

ThreadChoices ==
  { <<RNG_THREAD_NONE, FALSE, FALSE>>, <<RNG_THREAD_CRITSEC, FALSE, FALSE>>,
    <<RNG_THREAD_USERLOCK, TRUE, TRUE>>, <<RNG_THREAD_USERLOCK, TRUE, FALSE>>,
    <<RNG_THREAD_USERLOCK, FALSE, TRUE>>, <<RNG_THREAD_USERLOCK, FALSE, FALSE>> }

ToggleChoices == {Sources, {}, {"rdrand"}, {"audio", "disk"}}

\* Toggles and locking are varied one at a time.
ResolveChoices ==
  { <<u, t>> \in ToggleChoices \X ThreadChoices : u = Sources \/ t[1] = RNG_THREAD_NONE }

\* Configurations that vary the resolver, accumulator and locking side.
ResolveCfgs ==
  { [BaseCfg EXCEPT !.use = ut[1], !.threading = ut[2][1], !.user_lock = ut[2][2],
                    !.user_unlock = ut[2][3],
                    !.complexity = k, !.mixing = mx, !.sec_mode = sm] :
      ut \in ResolveChoices, k \in ComplexityArgs,
      mx \in {RNG_MIX_ROUND_BASED, RNG_MIX_CONTINUOUS},
      sm \in {RNG_MODE_FAST, RNG_MODE_BALANCED, RNG_MODE_SECURE, 7} }

\* Buffer lengths tried around the length the output mode asks for.
BufLens(c, raw_len) ==
  IF ValidOutputMode(c.output_mode)
  THEN LET n == Needed(c.output_mode, raw_len) IN {n - 1, n, n + 3}
  ELSE {raw_len}

NoArgs == [buf |-> TRUE, len |-> 0, raw_len |-> 0, complexity |-> 0, cfgptr |-> TRUE]

\* Calls of maxrng_dev that the argument check must turn away.
BadDevArgs ==
  { [NoArgs EXCEPT !.buf = FALSE, !.len = 16, !.raw_len = 16],
    [NoArgs EXCEPT !.len = 0, !.raw_len = 16],
    [NoArgs EXCEPT !.len = -1, !.raw_len = 16],
    [NoArgs EXCEPT !.len = 16, !.raw_len = 0],
    [NoArgs EXCEPT !.len = 16, !.raw_len = -1],
    [NoArgs EXCEPT !.len = 16, !.raw_len = 16, !.cfgptr = FALSE] }

\* The memory behind the caller's pointer.
CallerBuffer(a) == IF a.buf THEN Fresh(IF a.len > 0 THEN a.len ELSE 4) ELSE <<>>

ThreadsIdle ==
  /\ g_threadingInitialized = 0
  /\ g_rngLock = [state |-> "uninit", owner |-> 0]
  /\ tpc = <<>>
  /\ tcall = <<>>
  /\ userMutex = 0
  /\ initRuns = 0
  /\ enteredUninit = FALSE

LenIdle ==
  /\ lpc = "off"
  /\ larg = <<>>
  /\ lres = <<>>

ExpIdle ==
  /\ epc = "off"
  /\ earg = <<>>
  /\ eres = <<>>

MonIdle ==
  /\ g_monitorContext = [isRunning |-> 0, threadHandle |-> 0, totalDurationMs |-> 0]
  /\ mthread = <<>>
  /\ mpc = <<>>
  /\ mret = <<>>

GenIdle ==
  /\ pc = "off"
  /\ op = "none"
  /\ args = NoArgs
  /\ cfg_in = BaseCfg
  /\ env = NoEnv
  /\ cfg = BaseCfg
  /\ out_buf = <<>>
  /\ raw = <<>>
  /\ ikm = <<>>
  /\ col = InitCol
  /\ exp = InitExp
  /\ dev = InitDev
  /\ result = -1
  /\ dirty = {}
  /\ leaked = {}
  /\ failed = "none"
  /\ ignoredFail = FALSE
  /\ events = <<>>

Init ==
  /\ pc = "start"
  /\ \/ /\ op = "maxrng_dev"
        /\ \/ /\ cfg_in \in ExpandCfgs \cup FormatCfgs
              /\ env = NoEnv
              /\ \E r \in RawLens : \E n \in BufLens(cfg_in, r) :
                   args = [NoArgs EXCEPT !.len = n, !.raw_len = r]
           \/ /\ cfg_in \in ResolveCfgs
              /\ env \in IF cfg_in.threading = RNG_THREAD_NONE THEN Envs ELSE {NoEnv}
              /\ args = [NoArgs EXCEPT !.len = 16, !.raw_len = 16]
           \/ /\ cfg_in = BaseCfg
              /\ env = NoEnv
              /\ args \in BadDevArgs
     \/ /\ op \in SimpleOps
        /\ cfg_in = BaseCfg
        /\ env \in Envs
        /\ \E b \in BOOLEAN, n \in RawLens \cup {0, -1}, k \in ComplexityArgs :
             args = [NoArgs EXCEPT !.buf = b, !.len = n, !.complexity = k]
  /\ cfg = BaseCfg
  /\ out_buf = CallerBuffer(args)
  /\ raw = <<>>
  /\ ikm = <<>>
  /\ col = InitCol
  /\ exp = InitExp
  /\ dev = InitDev
  /\ result = -1
  /\ dirty = {}
  /\ leaked = {}
  /\ failed = "none"
  /\ ignoredFail = FALSE
  /\ events = <<>>
  /\ ThreadsIdle
  /\ LenIdle
  /\ ExpIdle
  /\ MonIdle

Next ==
  \/ maxrng_call
  \/ collect_open
  \/ collect_round_continuous
  \/ collect_finish
  \/ collect_round_chained
  \/ collect_first
  \/ collect_block
  \/ collect_done
  \/ maxrng_return
  \/ maxrng_dev_entry
  \/ dev_enter
  \/ dev_collect_ret
  \/ expand_output
  \/ counter_block
  \/ counter_done
  \/ hkdf_block
  \/ hkdf_return
  \/ hmac_block
  \/ hmac_done
  \/ dev_format

Spec == Init /\ [][Next]_vars

\* ------------------------------------------------------------------------
\* SpecThreads: the process-wide lock and flag under concurrent callers
\* ------------------------------------------------------------------------
Threads == 1..NumThreads

NoCall == [op |-> "none", threading |-> RNG_THREAD_NONE, user_lock |-> FALSE,
           user_unlock |-> FALSE]

\* Steps of a thread neither touch the single-call state nor SpecLen's.
otherVars == <<genVars, lenVars, expVars, monVars>>

\* An invocation is between its lock acquisition and its release.
InPipeline(t) == tpc[t] \in {"ts_pipeline", "dev_pipeline"}

\* The discipline the invocation of thread t asked for.
Serialized(t) == tcall[t].threading \in {RNG_THREAD_CRITSEC, RNG_THREAD_USERLOCK}

\* An initializer that sets the flag without comparing it first.
maxrng_init_NoCompare(t) ==
  /\ tpc[t] = "idle"
  /\ tcall' = [tcall EXCEPT ![t] = [NoCall EXCEPT !.op = "maxrng_init"]]
  /\ g_threadingInitialized' = 1
  /\ tpc' = [tpc EXCEPT ![t] = "init_cs"]
  /\ UNCHANGED <<g_rngLock, userMutex, initRuns, enteredUninit, otherVars>>

\* maxrng_init line 749: InterlockedCompareExchange(&g_threadingInitialized, 1, 0).
maxrng_init(t) ==
  /\ tpc[t] = "idle"
  /\ tcall' = [tcall EXCEPT ![t] = [NoCall EXCEPT !.op = "maxrng_init"]]
  /\ IF g_threadingInitialized = 0
     THEN /\ g_threadingInitialized' = 1
          /\ tpc' = [tpc EXCEPT ![t] = "init_cs"]
     ELSE /\ UNCHANGED g_threadingInitialized
          /\ UNCHANGED tpc
  /\ UNCHANGED <<g_rngLock, userMutex, initRuns, enteredUninit, otherVars>>

\* maxrng_init line 750: InitializeCriticalSection(&g_rngLock).
InitializeCriticalSection(t) ==
  /\ tpc[t] = "init_cs"
  /\ g_rngLock' = [state |-> "ready", owner |-> 0]
  /\ initRuns' = initRuns + 1
  /\ tpc' = [tpc EXCEPT ![t] = "idle"]
  /\ UNCHANGED <<g_threadingInitialized, tcall, userMutex, enteredUninit, otherVars>>

\* test_threading_available line 704: an atomic read of the flag.
test_threading_available(t) ==
  /\ tpc[t] = "idle"
  /\ tcall' = [tcall EXCEPT ![t] = [NoCall EXCEPT
                 !.op = IF g_threadingInitialized # 0 THEN "available_1" ELSE "available_0"]]
  /\ UNCHANGED <<g_threadingInitialized, g_rngLock, tpc, userMutex, initRuns,
                 enteredUninit, otherVars>>

\* maxrng_threadsafe lines 756-758: argument check and clamp.
maxrng_threadsafe(t) ==
  /\ tpc[t] = "idle"
  /\ tcall' = [tcall EXCEPT ![t] = [NoCall EXCEPT !.op = "maxrng_threadsafe",
                                                  !.threading = RNG_THREAD_CRITSEC]]
  /\ \E valid \in BOOLEAN :
       tpc' = [tpc EXCEPT ![t] = IF valid THEN "ts_enter" ELSE "idle"]
  /\ UNCHANGED <<g_threadingInitialized, g_rngLock, userMutex, initRuns, enteredUninit,
                 otherVars>>

\* EnterCriticalSection(&g_rngLock) by thread t, leading to position to.
\* On an initialized lock it waits for the lock to be free.  On a lock that
\* InitializeCriticalSection has not set up the behaviour is undefined: the
\* thread may get through whatever the owner field says, or never return.
EnterCriticalSection(t, to) ==
  IF g_rngLock.state = "ready"
  THEN /\ g_rngLock.owner = 0
       /\ g_rngLock' = [g_rngLock EXCEPT !.owner = t]
       /\ tpc' = [tpc EXCEPT ![t] = to]
       /\ UNCHANGED enteredUninit
  ELSE /\ enteredUninit' = TRUE
       /\ UNCHANGED g_rngLock
       /\ \E outcome \in {to, "hung"} : tpc' = [tpc EXCEPT ![t] = outcome]

\* LeaveCriticalSection(&g_rngLock) by thread t.
LeaveCriticalSection(t) ==
  g_rngLock' = [g_rngLock EXCEPT !.owner = IF @ = t THEN 0 ELSE @]

\* maxrng_threadsafe line 759.
threadsafe_enter(t) ==
  /\ tpc[t] = "ts_enter"
  /\ EnterCriticalSection(t, "ts_pipeline")
  /\ UNCHANGED <<g_threadingInitialized, tcall, userMutex, initRuns, otherVars>>

\* maxrng_threadsafe lines 761-776: collect, leave, return.
threadsafe_leave(t) ==
  /\ tpc[t] = "ts_pipeline"
  /\ LeaveCriticalSection(t)
  /\ tpc' = [tpc EXCEPT ![t] = "idle"]
  /\ UNCHANGED <<g_threadingInitialized, tcall, userMutex, initRuns, enteredUninit,
                 otherVars>>

\* maxrng_dev lines 782-814 as seen by the other threads: nothing shared is
\* touched; the call goes on to the lock unless it is turned away.  The
\* callbacks are only read under RNG_THREAD_USERLOCK, so they vary only there.
dev_call(t) ==
  /\ tpc[t] = "idle"
  /\ \E th \in {RNG_THREAD_NONE, RNG_THREAD_CRITSEC, RNG_THREAD_USERLOCK},
        ul \in BOOLEAN, uu \in BOOLEAN, valid \in BOOLEAN :
       /\ th # RNG_THREAD_USERLOCK => ul /\ uu
       /\ tcall' = [tcall EXCEPT ![t] = [op |-> "maxrng_dev", threading |-> th,
                                         user_lock |-> ul, user_unlock |-> uu]]
       /\ tpc' = [tpc EXCEPT ![t] = IF valid THEN "dev_lock" ELSE "idle"]
  /\ UNCHANGED <<g_threadingInitialized, g_rngLock, userMutex, initRuns, enteredUninit,
                 otherVars>>

\* maxrng_dev line 817: ensure_threading_enter.  The caller's callbacks are
\* taken to implement a mutex of the host application.
dev_lock(t) ==
  /\ tpc[t] = "dev_lock"
  /\ IF tcall[t].threading = RNG_THREAD_CRITSEC
     THEN /\ EnterCriticalSection(t, "dev_pipeline")
          /\ UNCHANGED userMutex
     ELSE IF tcall[t].threading = RNG_THREAD_USERLOCK /\ tcall[t].user_lock
     THEN /\ userMutex = 0
          /\ userMutex' = t
          /\ tpc' = [tpc EXCEPT ![t] = "dev_pipeline"]
          /\ UNCHANGED <<g_rngLock, enteredUninit>>
     ELSE /\ tpc' = [tpc EXCEPT ![t] = "dev_pipeline"]
          /\ UNCHANGED <<g_rngLock, enteredUninit, userMutex>>
  /\ UNCHANGED <<g_threadingInitialized, tcall, initRuns, otherVars>>

\* maxrng_dev lines 819-869: the pipeline, then ensure_threading_leave.
dev_unlock(t) ==
  /\ tpc[t] = "dev_pipeline"
  /\ IF tcall[t].threading = RNG_THREAD_CRITSEC
     THEN /\ LeaveCriticalSection(t)
          /\ UNCHANGED userMutex
     ELSE IF tcall[t].threading = RNG_THREAD_USERLOCK /\ tcall[t].user_unlock
     THEN /\ userMutex' = IF userMutex = t THEN 0 ELSE userMutex
          /\ UNCHANGED g_rngLock
     ELSE UNCHANGED <<g_rngLock, userMutex>>
  /\ tpc' = [tpc EXCEPT ![t] = "idle"]
  /\ UNCHANGED <<g_threadingInitialized, tcall, initRuns, enteredUninit, otherVars>>

InitThreads ==
  /\ g_threadingInitialized = 0
  /\ g_rngLock = [state |-> "uninit", owner |-> 0]
  /\ tpc = [t \in Threads |-> "idle"]
  /\ tcall = [t \in Threads |-> NoCall]
  /\ userMutex = 0
  /\ initRuns = 0
  /\ enteredUninit = FALSE
  /\ GenIdle
  /\ LenIdle
  /\ ExpIdle
  /\ MonIdle

NextThreads ==
  \/ \E t \in Threads : maxrng_init(t)
  \/ \E t \in Threads : InitializeCriticalSection(t)
  \/ \E t \in Threads : test_threading_available(t)
  \/ \E t \in Threads : maxrng_threadsafe(t)
  \/ \E t \in Threads : threadsafe_enter(t)
  \/ \E t \in Threads : threadsafe_leave(t)
  \/ \E t \in Threads : dev_call(t)
  \/ \E t \in Threads : dev_lock(t)
  \/ \E t \in Threads : dev_unlock(t)

SpecThreads == InitThreads /\ [][NextThreads]_vars

\* ------------------------------------------------------------------------
\* SpecLen: the int arithmetic of maxrng_dev's length check over the whole
\* 32-bit range.  raw_len runs up to INT_MAX here, so the bytes themselves
\* are not kept: the pipeline between the check and the formatter is a step
\* that succeeds or fails, and the formatter's stores are counted.
\* ------------------------------------------------------------------------
LenRawLens == {1, 2, 3, 4, 16, 17, Two30 - 1, Two30, Two30 + 1, 1610612733, 1610612734,
               IntMax - 2, IntMax - 1, IntMax}

LenBufLens == {1, 15, 16, 21, 24, 31, 32, 33, IntMax - 3, IntMax}

\* Bytes the formatter stores for raw_len input bytes; the count saturates
\* at IntMax when it does not fit an int.
StoredBytes(mode, raw_len) ==
  CASE mode = RNG_OUT_RAW -> raw_len
    [] mode = RNG_OUT_HEX -> IF raw_len < Two30 THEN 2 * raw_len ELSE IntMax
    [] mode = RNG_OUT_BASE64 ->
         LET groups == (raw_len \div 3) + (IF raw_len % 3 = 0 THEN 0 ELSE 1)
         IN IF groups < Two30 \div 2 THEN 4 * groups ELSE IntMax
    [] OTHER -> 0

InitLenRes == [ret |-> -1, needed |-> 0, ok |-> 0, stored |-> 0, locked |-> FALSE,
               entropy |-> FALSE]

\* maxrng_dev lines 782-810 with valid pointers: the length check.
len_check ==
  /\ lpc = "start"
  /\ LET needed == Needed(larg.mode, larg.raw_len)
     IN IF larg.out_buf_len <= 0 \/ larg.raw_len <= 0
           \/ ~ValidOutputMode(larg.mode) \/ larg.out_buf_len < needed
        THEN /\ lres' = [lres EXCEPT !.ret = 0, !.needed = needed]
             /\ lpc' = "done"
        ELSE /\ lres' = [lres EXCEPT !.needed = needed]
             /\ lpc' = "pipeline"
  /\ UNCHANGED <<larg, genVars, thrVars, expVars, monVars>>

\* maxrng_dev lines 812-850: allocations, lock, aggregation and expansion,
\* any of which may fail.
len_pipeline ==
  /\ lpc = "pipeline"
  /\ \E f \in {"ok", "malloc_raw", "malloc_ikm", "collect", "expand"} :
       /\ lres' = [lres EXCEPT !.ok = IF f = "ok" THEN 1 ELSE 0,
                               !.locked = (f # "malloc_raw"),
                               !.entropy = (f \notin {"malloc_raw", "malloc_ikm"}),
                               !.ret = IF f \in {"ok", "expand"} THEN @ ELSE 0]
       /\ lpc' = IF f \in {"ok", "expand"} THEN "format" ELSE "done"
  /\ UNCHANGED <<larg, genVars, thrVars, expVars, monVars>>

\* maxrng_dev lines 852-869: format and return `ok ? needed : 0`.
len_format ==
  /\ lpc = "format"
  /\ LET fits == ~(larg.mode = RNG_OUT_BASE64 /\ larg.out_buf_len < base64_len(larg.raw_len))
         ok == IF lres.ok # 0 /\ fits THEN 1 ELSE 0
     IN lres' = [lres EXCEPT !.ok = ok,
                             !.stored = IF ok # 0 THEN StoredBytes(larg.mode, larg.raw_len)
                                        ELSE 0,
                             !.ret = IF ok # 0 THEN lres.needed ELSE 0]
  /\ lpc' = "done"
  /\ UNCHANGED <<larg, genVars, thrVars, expVars, monVars>>

InitLen ==
  /\ lpc = "start"
  /\ larg \in [raw_len : LenRawLens, out_buf_len : LenBufLens,
               mode : {RNG_OUT_RAW, RNG_OUT_HEX, RNG_OUT_BASE64}]
  /\ lres = InitLenRes
  /\ GenIdle
  /\ ThreadsIdle
  /\ ExpIdle
  /\ MonIdle

NextLen ==
  \/ len_check
  \/ len_pipeline
  \/ len_format

SpecLen == InitLen /\ [][NextLen]_vars

\* ------------------------------------------------------------------------
\* SpecExpand: block counters and message lengths of hkdf_expand and
\* hmac_stream_expand over long outputs and long info.  Only the counts are
\* kept (the bytes are the subject of Spec): pos, the unsigned char ctr, the
\* length of the previous block and of the HMAC message.
\* ------------------------------------------------------------------------
\* Number of values of `unsigned char ctr` (lines 374, 411).
CounterValues == 256

\* unsigned char msg[64 + 1024 + 1] of hkdf_expand (line 379).
MsgCapacity == 64 + 1024 + 1

\* unsigned char msg[64 + 1] of hmac_stream_expand (line 414).
StreamMsgCapacity == 64 + 1

\* Output lengths of one block, two blocks, as many blocks as ctr has
\* non-zero values, one more, and MaxBlocks blocks.
ExpRawLens(H) ==
  {1, H + 1, (CounterValues - 1) * H, (CounterValues - 1) * H + 1, (MaxBlocks - 1) * H + 1}

\* cfg.info / cfg.info_len as a caller can leave them; maxrng_dev reads
\* neither before hkdf_expand does.
InfoChoices ==
  { [ptr |-> FALSE, len |-> 0], [ptr |-> TRUE, len |-> 2], [ptr |-> TRUE, len |-> -1],
    [ptr |-> TRUE, len |-> 1024], [ptr |-> TRUE, len |-> 1025],
    [ptr |-> TRUE, len |-> MaxInfoLen], [ptr |-> FALSE, len |-> MaxInfoLen] }

InitExpRes == [pos |-> 0, ctr |-> 1, t_len |-> 0, mlen |-> 0, blocks |-> 0, used |-> {},
               reused |-> FALSE, overflow |-> FALSE, ok |-> -1]

\* expand_output lines 657-686: hkdf_extract, then the expander selected.
exp_dispatch ==
  /\ epc = "start"
  /\ IF earg.expansion = RNG_EXP_HMAC
     THEN /\ epc' = "hmac_block"
          /\ UNCHANGED eres
     ELSE \E f \in {"ok", "hkdf_extract"} :
            IF f = "ok"
            THEN /\ epc' = "hkdf_block"
                 /\ UNCHANGED eres
            ELSE /\ epc' = "done"
                 /\ eres' = [eres EXCEPT !.ok = 0]
  /\ UNCHANGED <<earg, genVars, thrVars, lenVars, monVars>>

\* One pass of an expander's loop: a message of mlen bytes is assembled in a
\* buffer of capacity bytes with the current ctr as its last byte, then
\* HMAC'ed, and the block is copied out.  Stores past the end of msg are
\* undefined: the call may carry on or die there.
ExpandBlock(here, mlen, capacity) ==
  LET H == algo_digest_len(earg.algo)
      over == mlen > capacity
      to_copy == ToCopy(earg.raw_len, eres.pos, H)
      built == [eres EXCEPT !.mlen = mlen,
                            !.overflow = @ \/ over,
                            !.used = @ \cup {eres.ctr},
                            !.reused = @ \/ eres.ctr \in eres.used,
                            !.blocks = @ + 1]
  IN \E f \in {"ok", "hmac_once"} \cup (IF over THEN {"crash"} ELSE {}) :
       CASE f = "ok" ->
              /\ eres' = [built EXCEPT !.pos = @ + to_copy, !.t_len = H,
                                       !.ctr = (@ + 1) % CounterValues]
              /\ epc' = IF eres.pos + to_copy < earg.raw_len THEN here ELSE "return"
         [] f = "hmac_once" ->
              /\ eres' = [built EXCEPT !.ok = 0]
              /\ epc' = "done"
         [] OTHER ->
              /\ eres' = built
              /\ epc' = "crashed"

\* One iteration of the loop of hkdf_expand (lines 376-397).
exp_hkdf_block ==
  /\ epc = "hkdf_block"
  /\ ExpandBlock("hkdf_block",
                 eres.t_len
                   + (IF earg.info.ptr /\ earg.info.len > 0 THEN earg.info.len ELSE 0) + 1,
                 MsgCapacity)
  /\ UNCHANGED <<earg, genVars, thrVars, lenVars, monVars>>

\* One iteration of the loop of hmac_stream_expand (lines 413-428).
exp_hmac_block ==
  /\ epc = "hmac_block"
  /\ ExpandBlock("hmac_block", eres.t_len + 1, StreamMsgCapacity)
  /\ UNCHANGED <<earg, genVars, thrVars, lenVars, monVars>>

\* The expander returns 1 (lines 398, 431).
exp_return ==
  /\ epc = "return"
  /\ eres' = [eres EXCEPT !.ok = 1]
  /\ epc' = "done"
  /\ UNCHANGED <<earg, genVars, thrVars, lenVars, monVars>>

InitExpand ==
  /\ epc = "start"
  /\ \E e \in {RNG_EXP_HKDF, RNG_EXP_HMAC, RNG_EXP_XOF},
        a \in {RNG_HASH_SHA256, RNG_HASH_SHA512, RNG_HASH_SHA1} :
       \E r \in ExpRawLens(algo_digest_len(a)),
          i \in IF e = RNG_EXP_HMAC THEN {[ptr |-> FALSE, len |-> 0]} ELSE InfoChoices :
         earg = [expansion |-> e, algo |-> a, raw_len |-> r, info |-> i]
  /\ eres = InitExpRes
  /\ GenIdle
  /\ ThreadsIdle
  /\ LenIdle
  /\ MonIdle

NextExpand ==
  \/ exp_dispatch
  \/ exp_hkdf_block
  \/ exp_hmac_block
  \/ exp_return

SpecExpand == InitExpand /\ [][NextExpand]_vars

\* ------------------------------------------------------------------------
\* SpecMon: start_metrics_monitoring, stop_metrics_monitoring and
\* MonitoringThreadProc of processInspect.c.  g_monitorContext is a plain
\* static struct; its fields are read and written one at a time, with no
\* lock.  threadHandle 0 is NULL, a handle k names monitoring thread k.
\* ------------------------------------------------------------------------
Callers == 1..NumCallers

MonitorThreads == 1..MaxMonitorThreads

\* A monitoring thread that was created and has not returned yet.
Alive(k) == mthread[k] \in {"loop", "sleep", "exit"}

\* Nothing of the other specifications moves.
monRest == <<genVars, thrVars, lenVars, expVars>>

\* Return of an exported function to caller c.
MonReturn(c, name, value) ==
  /\ mret' = [mret EXCEPT ![c] = [op |-> name, ret |-> value]]
  /\ mpc' = [mpc EXCEPT ![c] = "idle"]

\* start_metrics_monitoring lines 307-309: don't start if already running.
start_check(c) ==
  /\ mpc[c] = "idle"
  /\ IF g_monitorContext.isRunning # 0
     THEN MonReturn(c, "start", 0)
     ELSE /\ mpc' = [mpc EXCEPT ![c] = "start_setup"]
          /\ UNCHANGED mret
  /\ UNCHANGED <<g_monitorContext, mthread, monRest>>

\* lines 312-318: the context is filled in and isRunning set.
start_setup(c) ==
  /\ mpc[c] = "start_setup"
  /\ \E d \in {-1, 1000} :
       g_monitorContext' = [g_monitorContext EXCEPT !.totalDurationMs = d, !.isRunning = 1]
  /\ mpc' = [mpc EXCEPT ![c] = "start_create"]
  /\ UNCHANGED <<mthread, mret, monRest>>

\* lines 321-335: CreateThread, which may fail.
start_create(c) ==
  /\ mpc[c] = "start_create"
  /\ \/ \E k \in MonitorThreads :
          /\ mthread[k] = "none"
          /\ \A j \in MonitorThreads : j < k => mthread[j] # "none"
          /\ mthread' = [mthread EXCEPT ![k] = "loop"]
          /\ g_monitorContext' = [g_monitorContext EXCEPT !.threadHandle = k]
          /\ MonReturn(c, "start", 1)
     \/ /\ g_monitorContext' = [g_monitorContext EXCEPT !.threadHandle = 0, !.isRunning = 0]
        /\ MonReturn(c, "start", 0)
        /\ UNCHANGED mthread
  /\ UNCHANGED monRest

\* stop_metrics_monitoring lines 340-342.
stop_check(c) ==
  /\ mpc[c] = "idle"
  /\ IF g_monitorContext.isRunning = 0
     THEN MonReturn(c, "stop", 0)
     ELSE /\ mpc' = [mpc EXCEPT ![c] = "stop_signal"]
          /\ UNCHANGED mret
  /\ UNCHANGED <<g_monitorContext, mthread, monRest>>

\* line 345: signal the thread to stop.
stop_signal(c) ==
  /\ mpc[c] = "stop_signal"
  /\ g_monitorContext' = [g_monitorContext EXCEPT !.isRunning = 0]
  /\ mpc' = [mpc EXCEPT ![c] = "stop_wait"]
  /\ UNCHANGED <<mthread, mret, monRest>>

\* lines 348-354: WaitForSingleObject(threadHandle, 5000) returns when the
\* thread has ended or when the five seconds are over; then the handle is
\* closed and cleared.
stop_wait(c) ==
  /\ mpc[c] = "stop_wait"
  /\ LET h == g_monitorContext.threadHandle
     IN IF h = 0
        THEN UNCHANGED g_monitorContext
        ELSE /\ \E timeout \in BOOLEAN : timeout \/ ~Alive(h)
             /\ g_monitorContext' = [g_monitorContext EXCEPT !.threadHandle = 0]
  /\ MonReturn(c, "stop", 1)
  /\ UNCHANGED <<mthread, monRest>>

\* MonitoringThreadProc lines 273-291: the loop test, one collection, the
\* duration check, and on to Sleep.
mon_iterate(k) ==
  /\ mthread[k] = "loop"
  /\ IF g_monitorContext.isRunning = 0
     THEN mthread' = [mthread EXCEPT ![k] = "exit"]
     ELSE \E elapsed \in BOOLEAN :
            /\ elapsed => g_monitorContext.totalDurationMs > 0
            /\ mthread' = [mthread EXCEPT ![k] = IF elapsed THEN "exit" ELSE "sleep"]
  /\ UNCHANGED <<g_monitorContext, mpc, mret, monRest>>

\* line 290: Sleep(ctx->intervalMs) is over.
mon_wake(k) ==
  /\ mthread[k] = "sleep"
  /\ mthread' = [mthread EXCEPT ![k] = "loop"]
  /\ UNCHANGED <<g_monitorContext, mpc, mret, monRest>>

\* lines 293-294: ctx->isRunning = 0; return 0.
mon_exit(k) ==
  /\ mthread[k] = "exit"
  /\ g_monitorContext' = [g_monitorContext EXCEPT !.isRunning = 0]
  /\ mthread' = [mthread EXCEPT ![k] = "dead"]
  /\ UNCHANGED <<mpc, mret, monRest>>

InitMon ==
  /\ g_monitorContext = [isRunning |-> 0, threadHandle |-> 0, totalDurationMs |-> 0]
  /\ mthread = [k \in MonitorThreads |-> "none"]
  /\ mpc = [c \in Callers |-> "idle"]
  /\ mret = [c \in Callers |-> [op |-> "none", ret |-> -1]]
  /\ GenIdle
  /\ ThreadsIdle
  /\ LenIdle
  /\ ExpIdle

NextMon ==
  \/ \E c \in Callers : start_check(c)
  \/ \E c \in Callers : start_setup(c)
  \/ \E c \in Callers : start_create(c)
  \/ \E c \in Callers : stop_check(c)
  \/ \E c \in Callers : stop_signal(c)
  \/ \E c \in Callers : stop_wait(c)
  \/ \E k \in MonitorThreads : mon_iterate(k)
  \/ \E k \in MonitorThreads : mon_wake(k)
  \/ \E k \in MonitorThreads : mon_exit(k)

SpecMon == InitMon /\ [][NextMon]_vars

\* ------------------------------------------------------------------------
\* The failure-free pipeline of maxrng_dev as a function of its inputs
\* ------------------------------------------------------------------------
RECURSIVE MixContinuous(_, _, _, _)
MixContinuous(ctx, rounds, c, e) ==
  IF rounds = 0 THEN ctx
  ELSE MixContinuous(hash_update_entropy_from_sources(ctx, c, e), rounds - 1, c, e)

RECURSIVE MixChained(_, _, _, _, _)
MixChained(ctx, rounds, algo, c, e) ==
  LET digest == Hash(algo, hash_update_entropy_from_sources(ctx, c, e))
  IN IF rounds <= 1 THEN digest ELSE MixChained(digest, rounds - 1, algo, c, e)

\* The digest collect_entropy_configurable holds at line 508.
RootDigest(rounds, algo, mixing, c, e) ==
  IF mixing = RNG_MIX_CONTINUOUS THEN Hash(algo, MixContinuous(<<>>, rounds, c, e))
  ELSE MixChained(<<>>, rounds, algo, c, e)

RECURSIVE ChainFill(_, _, _, _)
ChainFill(algo, digest, counter, remaining) ==
  IF remaining <= 0 THEN <<>>
  ELSE LET next == Hash(algo, digest \o CounterBytes(counter))
           n == Min(remaining, algo_digest_len(algo))
       IN Take(next, n) \o ChainFill(algo, next, counter + 1, remaining - n)

\* What collect_entropy_configurable leaves in `buffer` when it returns 1.
CollectorOutput(size, rounds, algo, mixing, c, e) ==
  LET digest == RootDigest(rounds, algo, mixing, c, e)
      n == Min(size, algo_digest_len(algo))
  IN Take(digest, n) \o ChainFill(algo, digest, 1, size - n)

RECURSIVE HkdfStream(_, _, _, _, _, _)
HkdfStream(c, prk, T, t_len, ctr, left) ==
  IF left <= 0 THEN <<>>
  ELSE LET H == algo_digest_len(c.hash_algo)
           next == hmac_once(c.hash_algo, prk, HkdfMsg(T, t_len, c, ctr))
           n == Min(left, H)
       IN Take(next, n) \o HkdfStream(c, prk, next, H, (ctr + 1) % 256, left - n)

\* The bytes a successful maxrng_dev call with expansion = RNG_EXP_HKDF
\* stores to out_buf for caller config c_in, raw_len and source behaviour e.
HkdfOutput(c_in, raw_len, out_buf_len, e) ==
  LET c == ResolveConfig([c_in EXCEPT !.expansion = RNG_EXP_HKDF])
      H == algo_digest_len(c.hash_algo)
      key == CollectorOutput(IkmLen(raw_len, H), c.complexity, c.hash_algo, c.mixing, c, e)
      prk == hkdf_extract(c.hash_algo, c.seed.ptr, SeedBytes(c), key)
  IN FormatOutput(c, HkdfStream(c, prk, <<>>, 0, 1, raw_len), out_buf_len).text

\* The seed bytes the RNG_EXP_COUNTER loop hashes after ikm (lines 635-639).
HashedSeed(c) == IF c.seed.ptr /\ c.seed.len > 0 THEN SeedBytes(c) ELSE <<>>

\* The concatenated, truncated blocks Hash(key || seed || counter_i) of the
\* RNG_EXP_COUNTER loop, counter_i = ctr, ctr + 1, ...
RECURSIVE CounterStream(_, _, _, _, _)
CounterStream(algo, key, seed, ctr, left) ==
  IF left <= 0 THEN <<>>
  ELSE LET block == Hash(algo, key \o seed \o CounterBytes(ctr))
           n == Min(left, algo_digest_len(algo))
       IN Take(block, n) \o CounterStream(algo, key, seed, ctr + 1, left - n)

\* ------------------------------------------------------------------------
\* Properties
\* ------------------------------------------------------------------------
Returned == pc = "done"

\* A BCrypt hash / HMAC call failed during the call, whether or not the
\* code looked at its status.
PrimitiveFailed ==
  \/ failed \notin {"none", "malloc", "expansion", "ikm_len"}
  \/ ignoredFail

\* C1: a maxrng_dev call during which any hash/HMAC primitive call failed
\* returns 0 and leaves the caller's buffer byte for byte as it was.
C1_PrimitiveFailureFailsDev ==
  (Returned /\ InDev /\ PrimitiveFailed) => (result = 0 /\ Untouched(out_buf))

\* C2: a maxrng / maxrng_ultra / maxrng_threadsafe call in which a hash
\* primitive call failed, the counter loop after the first block included,
\* returns failure and has stored no byte to the caller's buffer.
C2_NoPartialWriteOnFailure ==
  (op \in SimpleOps /\ failed # "none") => (Untouched(out_buf) /\ (Returned => result = 0))

\* The caller's buffer is shorter than the output mode requires for raw_len
\* (raw_len, 2*raw_len, 4*ceil(raw_len/3)), compared without overflow.
TooShort(mode, out_buf_len, raw_len) ==
  CASE mode = RNG_OUT_RAW -> out_buf_len < raw_len
    [] mode = RNG_OUT_HEX -> out_buf_len \div 2 < raw_len
    [] mode = RNG_OUT_BASE64 ->
         out_buf_len \div 4 < (raw_len \div 3) + (IF raw_len % 3 = 0 THEN 0 ELSE 1)
    [] OTHER -> TRUE

\* C3: a maxrng_dev call whose output buffer is shorter than the selected
\* format requires takes no lock, reads no entropy source, stores nothing to
\* the buffer and returns 0.
C3_ShortBufferRejectedFirst ==
  TooShort(larg.mode, larg.out_buf_len, larg.raw_len) =>
    /\ ~lres.locked
    /\ ~lres.entropy
    /\ lres.stored = 0
    /\ lpc = "done" => lres.ret = 0

\* C4: for every raw_len in the int range the requirement is exactly
\* raw_len / 2*raw_len / 4*ceil(raw_len/3): below it the call returns 0 and
\* stores nothing, at or above it a successful call returns and stores
\* exactly that many bytes.
C4_ExactLengthRequirement ==
  lpc = "done" =>
    IF TooShort(larg.mode, larg.out_buf_len, larg.raw_len)
    THEN lres.ret = 0 /\ lres.stored = 0
    ELSE lres.ok # 0 =>
           /\ lres.ret = StoredBytes(larg.mode, larg.raw_len)
           /\ lres.stored = StoredBytes(larg.mode, larg.raw_len)

\* C5: two invocations that selected the internal-lock or the user-lock
\* discipline are never inside their pipelines at the same time.
C5_PipelinesSerialized ==
  \A t \in Threads : \A u \in Threads \ {t} :
    (InPipeline(t) /\ InPipeline(u)) => ~(Serialized(t) /\ Serialized(u))

\* C6: no EnterCriticalSection on g_rngLock happens before
\* InitializeCriticalSection has finished.
C6_LockInitializedBeforeEnter == ~enteredUninit

\* C7: however maxrng_init calls repeat and interleave,
\* InitializeCriticalSection runs exactly once (it has run once as soon as
\* the flag is set and the winner is out of the call, never twice), and a
\* call that finds the flag set leaves flag and lock as they are.
C7_InitIdempotent ==
  /\ [](initRuns = IF g_threadingInitialized = 1 /\ \A t \in Threads : tpc[t] # "init_cs"
                   THEN 1 ELSE 0)
  /\ [][((\E t \in Threads : maxrng_init(t)) /\ g_threadingInitialized = 1)
          => UNCHANGED <<g_threadingInitialized, g_rngLock, initRuns>>]_vars

\* Every thread has been through maxrng_init and the lock was set up once.
C7_Witness ==
  /\ \A t \in Threads : tcall[t].op = "maxrng_init" /\ tpc[t] = "idle"
  /\ initRuns = 1
  /\ g_rngLock.state = "ready"

\* C8: on every exit path of maxrng_dev and its helpers no buffer that held
\* the root digest / IKM, expansion working state or raw output is released
\* before it was zeroed.
C8_SecretsWipedBeforeRelease == InDev => leaked = {}

\* The digest block the expansion loop produced last.
LastBlock ==
  CASE pc = "counter_done" -> exp.block
    [] pc = "hkdf_return" -> exp.T
    [] OTHER -> exp.prev

\* C9: every expansion strategy fills raw with full digest blocks in order
\* and a last block cut to the remaining count: while it runs exactly the
\* first pos bytes are written, on success exactly raw_len bytes are, and no
\* store ever lands at index raw_len or beyond.
C9_ExpansionWritesExactlyL ==
  LET H == algo_digest_len(cfg.hash_algo)
      L == args.raw_len
      start == H * ((L - 1) \div H)
  IN /\ pc \in {"counter_block", "hkdf_block", "hmac_block"} =>
          /\ Len(raw) = L
          /\ exp.pos < L
          /\ exp.pos % H = 0
          /\ \A i \in 1..L : (raw[i] # Sentinel) <=> (i <= exp.pos)
     /\ pc \in {"counter_done", "hkdf_return", "hmac_done"} =>
          /\ Len(raw) = L
          /\ exp.pos = L
          /\ \A i \in 1..L : raw[i] # Sentinel
          /\ SubSeq(raw, start + 1, L) = Take(LastBlock, L - start)

\* An expansion of several blocks whose last block is cut has just finished.
C9_Witness ==
  /\ pc \in {"counter_done", "hkdf_return", "hmac_done"}
  /\ args.raw_len > 2 * algo_digest_len(cfg.hash_algo)
  /\ args.raw_len % algo_digest_len(cfg.hash_algo) # 0

XofSucceeded ==
  /\ Returned
  /\ InDev
  /\ cfg_in.expansion = RNG_EXP_XOF
  /\ result > 0

\* C10 as stated: for every seed, info and raw_len a maxrng_dev call with
\* expansion = RNG_EXP_XOF stores the bytes the same call with
\* expansion = RNG_EXP_HKDF stores.
C10_XofEqualsHkdf ==
  XofSucceeded => Take(out_buf, result) = HkdfOutput(cfg_in, args.raw_len, args.len, env)

\* C10 amended: the two expansions store the same bytes whenever the
\* config carries no seed (seed pointer null, or seed_len <= 0).
C10_XofEqualsHkdfWithoutSeed ==
  (XofSucceeded /\ ~(cfg_in.seed.ptr /\ cfg_in.seed.len > 0)) =>
    Take(out_buf, result) = HkdfOutput(cfg_in, args.raw_len, args.len, env)

\* A seedless multi-block RNG_EXP_XOF call with info has returned its output.
C10_Witness ==
  /\ XofSucceeded
  /\ ~cfg_in.seed.ptr
  /\ cfg_in.info.ptr
  /\ args.raw_len > algo_digest_len(cfg.hash_algo)

CounterSucceeded ==
  /\ Returned
  /\ InDev
  /\ cfg.expansion = RNG_EXP_COUNTER
  /\ result > 0

\* C11 as stated: the output of the Counter strategy is the blocks
\* Hash(IKM || seed? || i), i = 1, 2, ..., with IKM the accumulator's root
\* digest unmodified.
C11_CounterBlocksFromRootDigest ==
  CounterSucceeded =>
    Take(out_buf, result) =
      FormatOutput(cfg,
                   CounterStream(cfg.hash_algo,
                                 RootDigest(cfg.complexity, cfg.hash_algo, cfg.mixing, cfg, env),
                                 HashedSeed(cfg), 1, args.raw_len),
                   args.len).text

\* C11 amended: the blocks are Hash(K || seed? || i) with K the ikm_len =
\* max(H, min(raw_len, 2H)) bytes the collector produced (the root digest,
\* then counter-chained digests of it), the first min(seed_len, ikm_len)
\* bytes of K XORed with the seed when a seed is present.
C11_CounterBlocksFromFoldedIkm ==
  CounterSucceeded =>
    LET H == algo_digest_len(cfg.hash_algo)
        ikm_len == Max(H, Min(args.raw_len, 2 * H))
        collected == CollectorOutput(ikm_len, cfg.complexity, cfg.hash_algo, cfg.mixing,
                                     cfg, env)
        present == cfg.seed.ptr /\ cfg.seed.len > 0
        K == [i \in 1..ikm_len |->
                IF present /\ i <= cfg.seed.len THEN Xor(collected[i], cfg.seed.bytes[i])
                ELSE collected[i]]
    IN Take(out_buf, result) =
         FormatOutput(cfg,
                      CounterStream(cfg.hash_algo, K,
                                    IF present THEN SeedBytes(cfg) ELSE <<>>,
                                    1, args.raw_len),
                      args.len).text

\* A seeded Counter call of several blocks has returned its output.
C11_Witness ==
  /\ CounterSucceeded
  /\ cfg.seed.ptr
  /\ cfg.seed.len > 0
  /\ args.raw_len > 2 * algo_digest_len(cfg.hash_algo)

\* C12 as stated: the keying material expand_output receives is exactly one
\* digest wide and is the finalized root digest of the invocation.
C12_IkmIsRootDigest ==
  (InDev /\ pc = "expand_output") =>
    /\ Len(ikm) = algo_digest_len(cfg.hash_algo)
    /\ ikm = RootDigest(cfg.complexity, cfg.hash_algo, cfg.mixing, cfg, env)

\* C12 amended: the keying material is max(H, min(raw_len, 2H)) bytes wide;
\* as the collector returns it, its first H bytes are the root digest and
\* the rest are counter-chained digests of it.
C12_IkmIsChainedFromRootDigest ==
  LET H == algo_digest_len(cfg.hash_algo)
      width == Max(H, Min(args.raw_len, 2 * H))
  IN /\ (InDev /\ pc = "collect_ret" /\ col.cres = 1) =>
          /\ Len(ikm) = width
          /\ Take(ikm, H) = RootDigest(cfg.complexity, cfg.hash_algo, cfg.mixing, cfg, env)
          /\ ikm = CollectorOutput(width, cfg.complexity, cfg.hash_algo, cfg.mixing, cfg, env)
     /\ (InDev /\ pc = "expand_output") =>
          /\ Len(ikm) = width
          /\ dev.ikm_len = width

\* The collector has returned keying material wider than one digest and
\* narrower than two.
C12_Witness ==
  /\ InDev
  /\ pc = "collect_ret"
  /\ col.cres = 1
  /\ Len(ikm) > algo_digest_len(cfg.hash_algo)
  /\ Len(ikm) < 2 * algo_digest_len(cfg.hash_algo)

\* The bytes S one pass over the sources adds to an empty context.
SourcePass == hash_update_entropy_from_sources(<<>>, cfg, env)

\* C13: with the sources returning the same bytes S on every read, one round
\* gives the root digest Hash(S) under either mixing, and two round-chained
\* rounds give Hash(Hash(S) || S), which differs from it.
C13_RoundChaining ==
  pc = "collect_first" =>
    /\ col.rounds = 1 => col.digest = Hash(col.algo, SourcePass)
    /\ (col.rounds = 2 /\ col.mixing = RNG_MIX_ROUND_BASED) =>
         /\ col.digest = Hash(col.algo, Hash(col.algo, SourcePass) \o SourcePass)
         /\ col.digest # Hash(col.algo, SourcePass)

\* Two round-chained rounds over delivering sources have been finalized.
C13_Witness ==
  /\ pc = "collect_first"
  /\ col.rounds = 2
  /\ col.mixing = RNG_MIX_ROUND_BASED
  /\ SourcePass # <<>>

\* Sources that put at least one byte into the hash in a round: enabled
\* after resolution, delivering, and their BCryptHashData succeeding.
Contributing == Delivering(cfg, env) \ env.updFail

\* The call got as far as running the accumulator.
RanRounds == \E i \in 1..Len(events) : events[i] = "entropy"

\* C14: an invocation in which no source contributes a byte in any round
\* returns failure.
C14_EmptyEntropyFails ==
  (Returned /\ RanRounds /\ Contributing = {}) => result = 0

\* maxrng_dev is past its argument check: cfg is the resolved configuration.
Resolved ==
  /\ InDev
  /\ pc # "start"
  /\ args.buf /\ args.len > 0 /\ args.raw_len > 0 /\ args.cfgptr

\* The sources the presets switch (use_audio, use_network, use_disk).
SlowSources == {"audio", "network", "disk"}

\* The toggles the preset is applied to: the caller's, or all eight when the
\* caller set none.
TogglesIn == IF cfg_in.use = {} THEN Sources ELSE cfg_in.use

\* C15 as stated: secure and balanced leave all eight sources enabled, fast
\* leaves audio, network and disk disabled; secure gives the 64-byte hash
\* with round-chained mixing, fast and balanced give continuous mixing.
C15_PresetSettings ==
  Resolved =>
    /\ cfg_in.sec_mode \in {RNG_MODE_SECURE, RNG_MODE_BALANCED} => cfg.use = Sources
    /\ cfg_in.sec_mode = RNG_MODE_FAST => cfg.use \cap SlowSources = {}
    /\ cfg_in.sec_mode = RNG_MODE_SECURE =>
         /\ algo_digest_len(cfg.hash_algo) = 64
         /\ cfg.mixing = RNG_MIX_ROUND_BASED
    /\ cfg_in.sec_mode \in {RNG_MODE_FAST, RNG_MODE_BALANCED} =>
         cfg.mixing = RNG_MIX_CONTINUOUS

\* C15 amended: secure and balanced enable audio, network and disk, fast
\* disables them, and every preset leaves the other five toggles as the
\* caller set them; hash and mixing as stated.
C15_PresetSwitchesSlowSources ==
  Resolved =>
    /\ cfg.use \ SlowSources = TogglesIn \ SlowSources
    /\ cfg_in.sec_mode \in {RNG_MODE_SECURE, RNG_MODE_BALANCED} => SlowSources \subseteq cfg.use
    /\ cfg_in.sec_mode = RNG_MODE_FAST => cfg.use \cap SlowSources = {}
    /\ cfg_in.sec_mode = RNG_MODE_SECURE =>
         /\ algo_digest_len(cfg.hash_algo) = 64
         /\ cfg.mixing = RNG_MIX_ROUND_BASED
    /\ cfg_in.sec_mode \in {RNG_MODE_FAST, RNG_MODE_BALANCED} =>
         cfg.mixing = RNG_MIX_CONTINUOUS

\* A fast-preset call whose caller had enabled a slow source was resolved.
C15_Witness ==
  /\ Resolved
  /\ cfg_in.sec_mode = RNG_MODE_FAST
  /\ cfg_in.use \cap SlowSources # {}
  /\ cfg_in.use # Sources

\* C16: a preset never weakens the caller's choice: after
\* apply_security_preset the complexity is at least the caller's, the digest
\* is at least as wide as the caller's, and round-chained mixing is kept.
C16_PresetNeverWeakens ==
  Resolved =>
    LET p == apply_security_preset(cfg_in)
    IN /\ p.complexity >= cfg_in.complexity
       /\ algo_digest_len(p.hash_algo) >= algo_digest_len(cfg_in.hash_algo)
       /\ cfg_in.mixing = RNG_MIX_ROUND_BASED => p.mixing = RNG_MIX_ROUND_BASED

\* The complexity floor of the preset arm a sec_mode value selects.
PresetFloor(sec_mode) ==
  CASE sec_mode = RNG_MODE_FAST -> 1
    [] sec_mode = RNG_MODE_SECURE -> 3
    [] OTHER -> 2

\* C17: the round count maxrng_dev passes to the accumulator lies in 1..10
\* and is at least the floor of the selected preset, whatever complexity the
\* caller supplied.
C17_RoundsClamped ==
  (InDev /\ pc = "collect_open") =>
    /\ col.rounds >= 1
    /\ col.rounds <= 10
    /\ col.rounds >= PresetFloor(cfg_in.sec_mode)
    /\ col.rounds = cfg.complexity

\* The accumulator is about to run for a caller who passed a complexity
\* above 10, and for one who passed a complexity below the secure floor.
C17_Witness ==
  /\ InDev
  /\ pc = "collect_open"
  /\ \/ cfg_in.complexity > 10 /\ col.rounds = 10
     \/ cfg_in.complexity < 1 /\ cfg_in.sec_mode = RNG_MODE_SECURE /\ col.rounds = 3

\* A zero-filled RNG_CONFIG (memset 0, or = {0}).
ZeroCfg ==
  [use |-> {}, hash_algo |-> 0, expansion |-> 0, mixing |-> 0, threading |-> 0,
   user_lock |-> FALSE, user_unlock |-> FALSE, seed |-> NoSeed, sec_mode |-> 0,
   complexity |-> 0, output_mode |-> 0, info |-> NoSeed]

\* The caller left sec_mode unset.
PresetUnset(c) ==
  \/ c = ZeroCfg
  \/ c.sec_mode \notin {RNG_MODE_FAST, RNG_MODE_BALANCED, RNG_MODE_SECURE}

\* C18: a config whose sec_mode was left unset is resolved as the same
\* config with sec_mode = balanced is.
C18_UnsetPresetIsBalanced ==
  (Resolved /\ PresetUnset(cfg_in)) =>
    cfg = [ResolveConfig([cfg_in EXCEPT !.sec_mode = RNG_MODE_BALANCED])
             EXCEPT !.sec_mode = cfg_in.sec_mode]

\* clamp(complexity, 1, 10) for maxrng_ultra, clamp(complexity, 1, 5) for
\* maxrng_threadsafe.
ClampedComplexity ==
  Max(1, Min(args.complexity, IF op = "maxrng_ultra" THEN 10 ELSE 5))

\* C19: maxrng_ultra and maxrng_threadsafe hand the accumulator the clamped
\* round count and the fixed config built from it, and a successful call
\* stores what the accumulator produces for the clamped value: a complexity
\* outside the range behaves as the nearest limit does.
C19_ComplexityClamp ==
  op \in {"maxrng_ultra", "maxrng_threadsafe"} =>
    /\ pc = "collect_open" =>
         /\ col.rounds = ClampedComplexity
         /\ cfg = FixedCfg(op, ClampedComplexity)
    /\ (Returned /\ result = 1) =>
         out_buf = CollectorOutput(args.len, ClampedComplexity, cfg.hash_algo, cfg.mixing,
                                   FixedCfg(op, ClampedComplexity), env)

\* maxrng_ultra returned output for a complexity above 10, or
\* maxrng_threadsafe for one above 5.
C19_Witness ==
  /\ Returned
  /\ result = 1
  /\ \/ op = "maxrng_ultra" /\ args.complexity > 10 /\ col.rounds = 10
     \/ op = "maxrng_threadsafe" /\ args.complexity > 5 /\ col.rounds = 5

\* The user callbacks maxrng_dev has invoked so far, in order.
UserCallbacks == SelectSeq(events, LAMBDA ev : ev \in {"user_lock", "user_unlock"})

\* C20: with the user-lock discipline the release callback runs once after
\* the pipeline exactly when the acquire callback ran once before it: never
\* a release without an acquire, never an acquire left unreleased when the
\* call returns.
C20_UserLockBalanced ==
  (InDev /\ cfg_in.threading = RNG_THREAD_USERLOCK) =>
    /\ UserCallbacks \in {<<>>, <<"user_lock">>, <<"user_lock", "user_unlock">>}
    /\ Returned => UserCallbacks # <<"user_lock">>

\* C21: in the HKDF, XOF and HMAC-stream expansions the one-byte block
\* counter is i for block i, for every raw_len maxrng_dev accepts: it never
\* wraps, and no value serves two blocks of one expansion.
C21_CounterNeverWraps ==
  /\ epc \in {"hkdf_block", "hmac_block"} =>
       /\ eres.ctr = eres.blocks + 1
       /\ eres.ctr \notin eres.used
  /\ ~eres.reused

\* C22: the message T(i-1) | info | counter that hkdf_expand assembles never
\* exceeds the 64 + 1024 + 1 bytes of msg, for every info pointer and
\* info_len maxrng_dev accepts.
C22_MessageFitsBuffer ==
  earg.expansion \in {RNG_EXP_HKDF, RNG_EXP_XOF} =>
    /\ eres.mlen <= MsgCapacity
    /\ ~eres.overflow

\* C23: at most one monitoring thread is alive at any time, whatever the
\* sequence and interleaving of starts, stops (whose wait may time out) and
\* the thread's own exit.
C23_SingleMonitoringThread ==
  Cardinality({k \in MonitorThreads : Alive(k)}) <= 1

====
